---- MODULE Spec2Model ----
(***************************************************************************)
(* A model of the ePoxy boot server: the Host record store, the session    *)
(* authority (Host.GenerateSessionIDs) and the request handlers of package *)
(* handler (stage1.ipxe, stage1.json, stage2, stage3, report, extension).  *)
(*                                                                         *)
(* Every handler runs on its own goroutine.  The only state the handlers   *)
(* share is the store, the clock and the random source, so a handler is    *)
(* split at exactly those points: Config.Load, the reads of time.Now and   *)
(* rand.Read, and Config.Save.  A handler that never saves is one step.    *)
(* The response a step writes is held in the variable response until it    *)
(* has left the server (Flush); it carries the request it answers, so that *)
(* what a handler did can be read off the state.                           *)
(***************************************************************************)
EXTENDS Integers, Sequences, FiniteSets, Bags, TLC

VARIABLES
    allowForwarded,  \* Env.AllowForwardedRequests
    projectID,       \* GCLOUD_PROJECT as read by storage.init
    store,           \* the Datastore: host name -> Host record
    clock,           \* what time.Now returns
    nextID,          \* position of the random source (rand.Read)
    admitted,        \* how many requests got past their checks to change the record
    reported,        \* the session IDs of the boots for which a report was saved
    succeeded,       \* a report with the message "success" has been saved
    inflight,        \* the requests that are between Load and Save (a bag)
    response,        \* the response being written, with its request
    issued,          \* the stage-1 requests that saved, in the order of their saves
    boot             \* the boot client (epoxy_client): its process state

serverVars == <<allowForwarded, projectID, store, clock, nextID, admitted,
                reported, succeeded, inflight, response, issued>>

vars == <<serverVars, boot>>

----------------------------------------------------------------------------
(* Bounds *)

MaxTime == 3       \* the clock stops ticking here
MaxRequests == 2   \* requests that get as far as changing their copy of the record
MaxInFlight == 2   \* concurrent requests that are between Load and Save
MaxChain == 2      \* documents the boot client loads through chain URLs in one run
MaxFiles == 2      \* entries of v1.files in a document
MaxCommands == 4   \* entries of v1.commands in a document
MaxLen == 4        \* characters of a kernel command line
MaxForwarded == 3  \* elements of an X-Forwarded-For header

----------------------------------------------------------------------------
(* Values *)

HostName == "mlab1.iad1t.measurement-lab.org"
NoSuchName == "unknown.measurement-lab.org"
HostIP == "165.117.240.9"
OtherIP == "192.168.0.1"
ServerAddr == "example.com:4321"

\* Session IDs.  The n-th value read from the random source is written n
\* (n >= 1); the empty string is EmptyID and BogusID is a string that was
\* never minted.
EmptyID == 0
BogusID == -1

\* A chain URL is written <<sequence, stage>>, the empty URL <<>>.
\* Stage names of a boot sequence (storage.Stage1IPXE ... storage.Stage3).
Stage1IPXE == "stage1.ipxe"
Stage1JSON == "stage1.json"
Stage2 == "stage2"
Stage3 == "stage3"

ZeroSessionIDs ==
    [Stage2ID |-> EmptyID, Stage3ID |-> EmptyID,
     ReportID |-> EmptyID, ExtensionID |-> EmptyID]

\* The zero value of storage.Host; what a failed Load leaves in hand.
ZeroHost ==
    [Name |-> "", IPv4Addr |-> "",
     Boot |-> [s \in {Stage1IPXE, Stage1JSON, Stage2, Stage3} |-> <<>>],
     Update |-> [s \in {Stage1IPXE, Stage1JSON, Stage2, Stage3} |-> <<>>],
     ImagesVersion |-> "",
     UpdateEnabled |-> FALSE,
     Extensions |-> <<>>,
     CurrentSessionIDs |-> ZeroSessionIDs,
     LastSessionCreation |-> 0, LastReport |-> 0, LastSuccess |-> 0]

\* A record as the administrative tooling creates it: no session IDs yet,
\* zero timestamps.
NewHost(update) ==
    [ZeroHost EXCEPT
        !.Name = HostName,
        !.IPv4Addr = HostIP,
        !.Boot = [s \in {Stage1IPXE, Stage1JSON, Stage2, Stage3} |-> <<"boot", s>>],
        !.Update = [s \in {Stage1IPXE, Stage1JSON, Stage2, Stage3} |-> <<"update", s>>],
        !.ImagesVersion = "latest",
        !.UpdateEnabled = update,
        !.Extensions = <<"allocate_k8s_token">>]

SessionIDSet(h) ==
    {h.CurrentSessionIDs.Stage2ID, h.CurrentSessionIDs.Stage3ID,
     h.CurrentSessionIDs.ReportID, h.CurrentSessionIDs.ExtensionID}

----------------------------------------------------------------------------
(* storage: the extension registry *)

\* storage.Extensions before init: operation -> URL template with a %s
\* placeholder for the project.
ExtensionTemplates ==
    [op \in {"allocate_k8s_token", "bmc_store_password", "test_op"} |->
        <<"http", op, "%s">>]

\* storage.init: the placeholder is substituted only when GCLOUD_PROJECT is
\* set.
Extensions ==
    [op \in DOMAIN ExtensionTemplates |->
        IF projectID # ""
        THEN <<ExtensionTemplates[op][1], ExtensionTemplates[op][2], projectID>>
        ELSE ExtensionTemplates[op]]

\* url.Parse: a host that still holds the placeholder has an invalid
\* percent-escape and does not parse.
URLParses(u) == u[3] # "%s"

----------------------------------------------------------------------------
(* storage.Host methods *)

\* generateSessionID: the n-th read of the random source, encoded.
generateSessionID(n) == n

\* Host.GenerateSessionIDs: four reads of the random source starting at
\* position n, then timeNow.
GenerateSessionIDsKeepsExtension(h, n, now) ==
    [h EXCEPT
        !.CurrentSessionIDs =
            [Stage2ID |-> generateSessionID(n),
             Stage3ID |-> generateSessionID(n + 1),
             ReportID |-> generateSessionID(n + 2),
             ExtensionID |-> h.CurrentSessionIDs.ExtensionID],
        !.LastSessionCreation = now]

GenerateSessionIDs(h, n, now) ==
    [h EXCEPT
        !.CurrentSessionIDs =
            [Stage2ID |-> generateSessionID(n),
             Stage3ID |-> generateSessionID(n + 1),
             ReportID |-> generateSessionID(n + 2),
             ExtensionID |-> generateSessionID(n + 3)],
        !.LastSessionCreation = now]

\* Host.CurrentSequence
CurrentSequenceInverted(h) == IF h.UpdateEnabled THEN h.Boot ELSE h.Update

CurrentSequence(h) == IF h.UpdateEnabled THEN h.Update ELSE h.Boot

----------------------------------------------------------------------------
(* DatastoreConfig *)

\* DatastoreConfig.Load: the record, or an error when there is none.
LoadErr(name) == name \notin DOMAIN store
Load(name) == IF LoadErr(name) THEN ZeroHost ELSE store[name]

\* A store whose Get answers a missing name with an empty record.
LoadOutcomesCreates(name) == {"ok", "error"}

\* How client.Get can end: datastore.ErrNoSuchEntity when there is no
\* record, and for a record that exists either the record or another error
\* of the store.
LoadOutcomes(name) == IF LoadErr(name) THEN {"notfound"} ELSE {"ok", "error"}

\* DatastoreConfig.Save: a full overwrite under the record's own name.
SaveKeepsStoredExtensionID(h) ==
    [n \in DOMAIN store \cup {h.Name} |->
        IF n # h.Name THEN store[n]
        ELSE IF n \in DOMAIN store
             THEN [h EXCEPT !.CurrentSessionIDs.ExtensionID =
                               store[n].CurrentSessionIDs.ExtensionID]
             ELSE h]

Save(h) == [n \in DOMAIN store \cup {h.Name} |-> IF n = h.Name THEN h ELSE store[n]]

----------------------------------------------------------------------------
(* package template *)

\* fmt.Sprintf("https://%s/v1/boot/%s/%s/<target>", serverAddr, h.Name, sid)
BootURL(serverAddr, name, sid, target) == <<serverAddr, name, sid, target>>

\* fmt.Sprintf("https://%s/v1/boot/%s/%s/extension/%s", serverAddr, h.Name,
\* sid, operation)
ExtensionURL(serverAddr, name, sid, op) == <<serverAddr, name, sid, "extension", op>>

\* template.FormatStage1IPXEScript: the script, line by line.  The variable
\* x_url is written <<x, "_url">>.
FormatStage1IPXEScript(h, serverAddr) ==
    <<  <<"#!ipxe">>,
        <<"set", <<"stage1chain", "_url">>, CurrentSequence(h)[Stage1IPXE]>>,
        <<"set", <<"stage2", "_url">>,
          BootURL(serverAddr, h.Name, h.CurrentSessionIDs.Stage2ID, "stage2")>>,
        <<"set", <<"stage3", "_url">>,
          BootURL(serverAddr, h.Name, h.CurrentSessionIDs.Stage3ID, "stage3")>>,
        <<"set", <<"report", "_url">>,
          BootURL(serverAddr, h.Name, h.CurrentSessionIDs.ReportID, "report")>> >>
    \o [i \in 1..Len(h.Extensions) |->
          <<"set", <<h.Extensions[i], "_url">>,
            ExtensionURL(serverAddr, h.Name, h.CurrentSessionIDs.ExtensionID,
                         h.Extensions[i])>>]
    \o << <<"chain", "${stage1chain_url}">> >>

\* template.CreateStage1Action: the kernel arguments as key/value pairs and
\* the chain URL of v1.  The key epoxy.x is written <<"epoxy.", x>>.
CreateStage1Action(h, serverAddr) ==
    [kargs |->
        {<<<<"epoxy.", "stage2">>,
           BootURL(serverAddr, h.Name, h.CurrentSessionIDs.Stage2ID, "stage2")>>,
         <<<<"epoxy.", "stage3">>,
           BootURL(serverAddr, h.Name, h.CurrentSessionIDs.Stage3ID, "stage3")>>,
         <<<<"epoxy.", "report">>,
           BootURL(serverAddr, h.Name, h.CurrentSessionIDs.ReportID, "report")>>}
        \cup {<<<<"epoxy.", h.Extensions[i]>>,
                ExtensionURL(serverAddr, h.Name, h.CurrentSessionIDs.ExtensionID,
                             h.Extensions[i])>> : i \in 1..Len(h.Extensions)},
     chain |-> CurrentSequence(h)[Stage1JSON]]

\* template.FormatJSONConfig: the document {"v1": {"chain": ...}}.
FormatJSONConfig(h, stage) == [kargs |-> {}, chain |-> CurrentSequence(h)[stage]]

----------------------------------------------------------------------------
(* package handler: the source-IP rule *)

\* What a request can carry.  RemoteAddr is <<IP, port>>; the X-Forwarded-For
\* header is the list of its ", "-separated elements, <<>> when absent.
RemoteAddrs == {<<HostIP, "49152">>, <<OtherIP, "49152">>}
ForwardedHeaders == {<<>>, <<HostIP>>}

\* strings.Split(header, ", "): the empty header splits into one empty string.
SplitForwarded(header) == IF header = <<>> THEN <<"">> ELSE header

\* extractIP: url.Parse("//" + remoteAddr) fails on a non-numeric port;
\* otherwise Hostname() is the IP part.
extractIPErr(remoteAddr) == remoteAddr[2] \notin {"49152"}
extractIP(remoteAddr) == IF extractIPErr(remoteAddr) THEN "" ELSE remoteAddr[1]

\* Env.requestIsFromHost: TRUE for a nil error.
requestIsFromHostAnyLength(req, host) ==
    LET fwdIPs == SplitForwarded(req.XForwardedFor)
    IN  IF allowForwarded /\ fwdIPs[1] = host.IPv4Addr
        THEN TRUE
        ELSE IF extractIPErr(req.RemoteAddr)
             THEN FALSE
             ELSE IF ~allowForwarded /\ extractIP(req.RemoteAddr) = host.IPv4Addr
                  THEN TRUE
                  ELSE FALSE

requestIsFromHost(req, host) ==
    LET fwdIPs == SplitForwarded(req.XForwardedFor)
    IN  IF allowForwarded /\ Len(fwdIPs) <= 2 /\ fwdIPs[1] = host.IPv4Addr
        THEN TRUE
        ELSE IF extractIPErr(req.RemoteAddr)
             THEN FALSE
             ELSE IF ~allowForwarded /\ extractIP(req.RemoteAddr) = host.IPv4Addr
                  THEN TRUE
                  ELSE FALSE

----------------------------------------------------------------------------
(* package handler: requests and responses *)

\* mux.Vars(req)["hostname"]
Names == {HostName, NoSuchName}

\* mux.Vars(req)["sessionID"]: the empty string, a string that was never
\* minted, or an ID minted by one of the last two stage-1 requests (older IDs
\* are stale in the same way as the stale ones among these).
SessionIDChoices == {EmptyID, BogusID} \cup {n \in (nextID - 8)..(nextID - 1) : n >= 1}

\* req.PostForm.Get("message"); "" when the field is missing.
Messages == {"success", "error: something failed", ""}

\* mux.Vars(req)["operation"]
Operations == {"", "allocate_k8s_token", "bmc_store_password", "unknown"}

\* What the extension backend answers through the reverse proxy; 502 is the
\* proxy's own answer to a transport error.
BackendStatus == {200, 404, 502}

Requests == [RemoteAddr : RemoteAddrs, XForwardedFor : ForwardedHeaders]

\* The request of a response that does not keep it.
NoRequest == [RemoteAddr |-> <<"", "">>, XForwardedFor |-> <<>>]

NoBody == [type |-> "none", text |-> "", script |-> <<>>, kargs |-> {}, chain |-> <<>>]
TextBody(t) == [NoBody EXCEPT !.type = "text", !.text = t]
ScriptBody(lines) == [NoBody EXCEPT !.type = "ipxe", !.script = lines]
ActionBody(a) == [NoBody EXCEPT !.type = "json", !.kargs = a.kargs, !.chain = a.chain]
BackendBody == [NoBody EXCEPT !.type = "backend"]

NoStore == [n \in {HostName} |-> ZeroHost]

\* The query string of the URL and the body of a client's request.
NoClientData == [query |-> "", body |-> ""]
ClientData == {NoClientData, [query |-> "p=somevalue&z=othervalue", body |-> "payload"]}

\* extension.Request: the envelope {"v1": {...}} sent to an extension backend.
NoEnvelope ==
    [hostname |-> "", ipv4_address |-> "", ipv6_address |-> "", last_boot |-> 0,
     raw_query |-> ""]

\* A response together with the request it answers.  The request fields
\* (sid, op, msg) hold what the handler had read from the request when it
\* answered.  sourceOK is the verdict of the source-IP rule on the request
\* and the loaded record; loaded is the record Load returned; saved is the
\* record handed to Save (saveCalled) and wrote says whether Save stored
\* it; before and after are the store around the step that wrote the
\* response; proxied says whether the backend was contacted; now is the
\* handler's clock reading; replayed says whether the sid belonged to a boot
\* that had already been reported when the handler read it; loadErr is how
\* Load ended; panicked says that the handler's goroutine panicked, in which
\* case net/http closes the connection and no status is written (status 0);
\* client is the query and body of the client's request, envelope and
\* backendURL the body and URL of the request the reverse proxy sent.
NoResponse ==
    [handler |-> "", name |-> "", sid |-> EmptyID, op |-> "", msg |-> "",
     sourceOK |-> FALSE, status |-> 0, body |-> NoBody,
     loaded |-> ZeroHost, saved |-> ZeroHost, saveCalled |-> FALSE, wrote |-> FALSE,
     before |-> NoStore, after |-> NoStore, proxied |-> FALSE, now |-> 0,
     replayed |-> FALSE, loadErr |-> "", panicked |-> FALSE,
     client |-> NoClientData, envelope |-> NoEnvelope, backendURL |-> <<>>,
     req |-> NoRequest]

\* The sessionID is one of the IDs of a boot whose report has been saved.
Replayed(sessionID) ==
    /\ sessionID # EmptyID
    /\ \E ids \in reported :
         sessionID \in {ids.Stage2ID, ids.Stage3ID, ids.ReportID, ids.ExtensionID}

\* http.Error(rw, text, code)
Error(rsp, code, text) == [rsp EXCEPT !.status = code, !.body = TextBody(text)]

\* A request between Load and Save: where it is, what it read from the
\* request, the record it loaded and the copy it is changing.
InFlight(handler, sid, msg, ok, host) ==
    [pc |-> "loaded", handler |-> handler, sid |-> sid, msg |-> msg,
     sourceOK |-> ok, loaded |-> host, host |-> host, now |-> 0,
     replayed |-> Replayed(sid)]

Admit(r) == inflight (+) SetToBag({r})
Retire(r) == inflight (-) SetToBag({r})
Advance(r, q) == (inflight (-) SetToBag({r})) (+) SetToBag({q})

\* A goroutine can take one more request that goes on to save.
CanAdmit ==
    /\ BagCardinality(inflight) < MaxInFlight
    /\ admitted < MaxRequests

\* time.Now: the clock may have advanced since it was last read.
Readings == {t \in {clock, clock + 1} : t <= MaxTime}

\* The reply to a request that called Save (handler.go:139-154, 189-204,
\* 282-292): 500 with the error text when Save failed, else the handler's
\* own status and body.
SaveReplyIgnoresError(rsp, saveErr, code, body) ==
    [rsp EXCEPT !.status = code, !.body = body]

SaveReply(rsp, saveErr, code, body) ==
    IF saveErr
    THEN Error(rsp, 500, "save")
    ELSE [rsp EXCEPT !.status = code, !.body = body]

\* The end of a request r whose goroutine panicked in generateSessionID
\* (host.go:284-287): nothing is written and nothing is saved.
Panicked(r) ==
    [NoResponse EXCEPT !.handler = r.handler, !.name = r.loaded.Name,
        !.sourceOK = r.sourceOK, !.loaded = r.loaded, !.loadErr = "ok",
        !.panicked = TRUE, !.before = store, !.after = store]

\* What is remembered of a stage-1 request r that saved: the IDs it
\* handed out and the IDs of the record it had loaded.
Issued(r) ==
    [ids |-> r.host.CurrentSessionIDs, loaded |-> r.loaded.CurrentSessionIDs]

\* The response of a request r that has called Save.
Saving(r, saveErr) ==
    [NoResponse EXCEPT !.handler = r.handler, !.name = r.host.Name,
        !.sid = r.sid, !.msg = r.msg, !.sourceOK = r.sourceOK,
        !.loaded = r.loaded, !.saved = r.host, !.saveCalled = TRUE,
        !.wrote = ~saveErr, !.now = r.now, !.replayed = r.replayed,
        !.loadErr = "ok",
        !.before = store,
        !.after = IF saveErr THEN store ELSE Save(r.host)]

----------------------------------------------------------------------------
(* Env.GenerateStage1IPXE *)

\* handler.go:114-127: load the record, 404 on error, 403 when the request
\* is not from the host.
GenerateStage1IPXELoad ==
    /\ response = NoResponse
    /\ \E name \in Names, req \in Requests :
       \E outcome \in LoadOutcomes(name) :
         LET host == Load(name)
             ok == requestIsFromHost(req, host)
             rsp == [NoResponse EXCEPT !.handler = Stage1IPXE, !.name = name,
                        !.before = store, !.after = store,
                        !.loadErr = outcome]
         IN  IF outcome # "ok"
             THEN /\ response' = Error(rsp, 404, "load")
                  /\ UNCHANGED <<inflight, admitted>>
             ELSE IF ~ok
             THEN /\ response' = Error([rsp EXCEPT !.loaded = host], 403,
                                       "Caller cannot access host")
                  /\ UNCHANGED <<inflight, admitted>>
             ELSE /\ CanAdmit
                  /\ inflight' = Admit(InFlight(Stage1IPXE, EmptyID, "", ok, host))
                  /\ admitted' = admitted + 1
                  /\ UNCHANGED response
    /\ UNCHANGED <<boot, issued, allowForwarded, projectID, store, clock, nextID, reported,
                   succeeded>>

\* handler.go:133: host.GenerateSessionIDs().
GenerateStage1IPXEMint ==
    /\ response = NoResponse
    /\ \E r \in BagToSet(inflight), randErr \in BOOLEAN :
         /\ r.pc = "loaded"
         /\ r.handler = Stage1IPXE
         /\ IF randErr
            THEN /\ inflight' = Retire(r)
                 /\ response' = Panicked(r)
                 /\ UNCHANGED clock
            ELSE \E now \in Readings :
                 /\ inflight' = Advance(r, [r EXCEPT !.pc = "minted", !.now = now,
                                    !.host = GenerateSessionIDs(r.host, nextID, now)])
                 /\ clock' = now
                 /\ UNCHANGED response
    /\ nextID' = nextID + 4
    /\ UNCHANGED <<boot, issued, allowForwarded, projectID, store, admitted, reported,
                   succeeded>>

\* handler.go:139-154: save, 500 on error, else the script with status 200.
GenerateStage1IPXESave ==
    /\ response = NoResponse
    /\ \E r \in BagToSet(inflight), saveErr \in BOOLEAN :
         /\ r.pc = "minted"
         /\ r.handler = Stage1IPXE
         /\ inflight' = Retire(r)
         /\ store' = (IF saveErr THEN store ELSE Save(r.host))
         /\ response' = SaveReply(Saving(r, saveErr), saveErr, 200,
                            ScriptBody(FormatStage1IPXEScript(r.host, ServerAddr)))
         /\ issued' = (IF saveErr THEN issued ELSE Append(issued, Issued(r)))
    /\ UNCHANGED <<boot, allowForwarded, projectID, clock, nextID, admitted,
                   reported, succeeded>>

GenerateStage1IPXE ==
    \/ GenerateStage1IPXELoad
    \/ GenerateStage1IPXEMint
    \/ GenerateStage1IPXESave

----------------------------------------------------------------------------
(* Env.GenerateStage1JSON *)

\* handler.go:162-177: load the record, 404 on error.  The source-IP check
\* is commented out in this handler; sourceOK only records what the rule
\* would have said.
GenerateStage1JSONLoad ==
    /\ response = NoResponse
    /\ \E name \in Names, req \in Requests :
       \E outcome \in LoadOutcomes(name) :
         LET host == Load(name)
             ok == requestIsFromHost(req, host)
             rsp == [NoResponse EXCEPT !.handler = Stage1JSON, !.name = name,
                        !.before = store, !.after = store,
                        !.loadErr = outcome]
         IN  IF outcome # "ok"
             THEN /\ response' = Error(rsp, 404, "load")
                  /\ UNCHANGED <<inflight, admitted>>
             ELSE /\ CanAdmit
                  /\ inflight' = Admit(InFlight(Stage1JSON, EmptyID, "", ok, host))
                  /\ admitted' = admitted + 1
                  /\ UNCHANGED response
    /\ UNCHANGED <<boot, issued, allowForwarded, projectID, store, clock, nextID, reported,
                   succeeded>>

\* handler.go:183: host.GenerateSessionIDs().
GenerateStage1JSONMint ==
    /\ response = NoResponse
    /\ \E r \in BagToSet(inflight), randErr \in BOOLEAN :
         /\ r.pc = "loaded"
         /\ r.handler = Stage1JSON
         /\ IF randErr
            THEN /\ inflight' = Retire(r)
                 /\ response' = Panicked(r)
                 /\ UNCHANGED clock
            ELSE \E now \in Readings :
                 /\ inflight' = Advance(r, [r EXCEPT !.pc = "minted", !.now = now,
                                    !.host = GenerateSessionIDs(r.host, nextID, now)])
                 /\ clock' = now
                 /\ UNCHANGED response
    /\ nextID' = nextID + 4
    /\ UNCHANGED <<boot, issued, allowForwarded, projectID, store, admitted, reported,
                   succeeded>>

\* handler.go:189-204: save, 500 on error, else the action with status 200.
GenerateStage1JSONSave ==
    /\ response = NoResponse
    /\ \E r \in BagToSet(inflight), saveErr \in BOOLEAN :
         /\ r.pc = "minted"
         /\ r.handler = Stage1JSON
         /\ inflight' = Retire(r)
         /\ store' = (IF saveErr THEN store ELSE Save(r.host))
         /\ response' = SaveReply(Saving(r, saveErr), saveErr, 200,
                            ActionBody(CreateStage1Action(r.host, ServerAddr)))
         /\ issued' = (IF saveErr THEN issued ELSE Append(issued, Issued(r)))
    /\ UNCHANGED <<boot, allowForwarded, projectID, clock, nextID, admitted,
                   reported, succeeded>>

GenerateStage1JSON ==
    \/ GenerateStage1JSONLoad
    \/ GenerateStage1JSONMint
    \/ GenerateStage1JSONSave

----------------------------------------------------------------------------
(* Env.GenerateJSONConfig *)

\* handler.go:209-240.  The handler serves both stage2 and stage3; the stage
\* is the last path segment.  The sessionID of the path is read by nobody.
GenerateJSONConfigVerifies ==
    /\ response = NoResponse
    /\ \E name \in Names, req \in Requests, stage \in {Stage2, Stage3} :
       \E outcome \in LoadOutcomes(name) :
         LET host == Load(name)
             ok == requestIsFromHost(req, host)
             rsp == [NoResponse EXCEPT !.handler = stage, !.name = name,
                        !.before = store, !.after = store,
                        !.loadErr = outcome]
         IN  IF outcome # "ok"
             THEN response' = Error(rsp, 404, "load")
             ELSE IF ~ok
             THEN response' = Error([rsp EXCEPT !.loaded = host], 403,
                                    "Caller cannot access host")
             ELSE \E sid \in SessionIDChoices :
                  IF sid # (IF stage = Stage2 THEN host.CurrentSessionIDs.Stage2ID
                                              ELSE host.CurrentSessionIDs.Stage3ID)
                  THEN response' = Error([rsp EXCEPT !.loaded = host, !.sid = sid,
                                             !.sourceOK = ok], 403,
                                         "Given session ID does not match host record")
                  ELSE
                    response' = [rsp EXCEPT !.status = 200, !.loaded = host,
                                   !.sid = sid, !.sourceOK = ok,
                                   !.replayed = Replayed(sid),
                                   !.body = ActionBody(FormatJSONConfig(host, stage))]
    /\ UNCHANGED <<boot, issued, allowForwarded, projectID, store, clock, nextID, admitted,
                   reported, succeeded, inflight>>

GenerateJSONConfig ==
    /\ response = NoResponse
    /\ \E name \in Names, req \in Requests, stage \in {Stage2, Stage3} :
       \E outcome \in LoadOutcomes(name) :
         LET host == Load(name)
             ok == requestIsFromHost(req, host)
             rsp == [NoResponse EXCEPT !.handler = stage, !.name = name,
                        !.before = store, !.after = store,
                        !.loadErr = outcome]
         IN  IF outcome # "ok"
             THEN response' = Error(rsp, 404, "load")
             ELSE IF ~ok
             THEN response' = Error([rsp EXCEPT !.loaded = host], 403,
                                    "Caller cannot access host")
             ELSE \E sid \in SessionIDChoices :
                    response' = [rsp EXCEPT !.status = 200, !.loaded = host,
                                   !.sid = sid, !.sourceOK = ok,
                                   !.replayed = Replayed(sid),
                                   !.body = ActionBody(FormatJSONConfig(host, stage))]
    /\ UNCHANGED <<boot, issued, allowForwarded, projectID, store, clock, nextID, admitted,
                   reported, succeeded, inflight>>

----------------------------------------------------------------------------
(* Env.ReceiveReport *)

\* handler.go:266-267: the session check of the report handler.
ReportAuthorizedAlways(sessionID, host) == TRUE

ReportAuthorized(sessionID, host) == sessionID = host.CurrentSessionIDs.ReportID

\* handler.go:248-270: load, 404 on error, 403 when the request is not from
\* the host, 403 when the sessionID is not the record's ReportID.
ReceiveReportLoad ==
    /\ response = NoResponse
    /\ \E name \in Names, req \in Requests :
       \E outcome \in LoadOutcomes(name) :
         LET host == Load(name)
             ok == requestIsFromHost(req, host)
             rsp == [NoResponse EXCEPT !.handler = "report", !.name = name,
                        !.before = store, !.after = store,
                        !.loadErr = outcome]
         IN  IF outcome # "ok"
             THEN /\ response' = Error(rsp, 404, "load")
                  /\ UNCHANGED <<inflight, admitted>>
             ELSE IF ~ok
             THEN /\ response' = Error([rsp EXCEPT !.loaded = host], 403,
                                       "Caller cannot access host")
                  /\ UNCHANGED <<inflight, admitted>>
             ELSE \E sid \in SessionIDChoices, msg \in Messages :
                  IF ~ReportAuthorized(sid, host)
                  THEN /\ response' = Error([rsp EXCEPT !.loaded = host, !.sid = sid,
                                                !.msg = msg, !.sourceOK = ok,
                                                !.replayed = Replayed(sid)], 403,
                                            "Given session ID does not match host record")
                       /\ UNCHANGED <<inflight, admitted>>
                  ELSE /\ CanAdmit
                       /\ inflight' = Admit(InFlight("report", sid, msg, ok, host))
                       /\ admitted' = admitted + 1
                       /\ UNCHANGED response
    /\ UNCHANGED <<boot, issued, allowForwarded, projectID, store, clock, nextID, reported,
                   succeeded>>

\* handler.go:272-279: the changes a report makes to the loaded record.
ApplyReportKeepsUpdate(host, status, now) ==
    IF status = "success"
    THEN [host EXCEPT !.LastReport = now, !.LastSuccess = now]
    ELSE [host EXCEPT !.LastReport = now]

ApplyReportStampsOne(host, status, now) ==
    IF status = "success"
    THEN [host EXCEPT !.LastSuccess = now, !.UpdateEnabled = FALSE]
    ELSE [host EXCEPT !.LastReport = now]

ApplyReportAnyMessage(host, status, now) ==
    [host EXCEPT !.LastReport = now, !.LastSuccess = now, !.UpdateEnabled = FALSE]

ApplyReport(host, status, now) ==
    IF status = "success"
    THEN [host EXCEPT !.LastReport = now, !.LastSuccess = now,
                      !.UpdateEnabled = FALSE]
    ELSE [host EXCEPT !.LastReport = now]

\* handler.go:272-279: read time.Now and apply the report.
ReceiveReportStamp ==
    /\ response = NoResponse
    /\ \E r \in BagToSet(inflight), now \in Readings :
         /\ r.pc = "loaded"
         /\ r.handler = "report"
         /\ inflight' = Advance(r, [r EXCEPT !.pc = "stamped", !.now = now,
                            !.host = ApplyReport(r.host, r.msg, now)])
         /\ clock' = now
    /\ UNCHANGED <<boot, issued, allowForwarded, projectID, store, nextID, admitted, reported,
                   succeeded, response>>

\* handler.go:282-292: save, 500 on error, else 204.
ReceiveReportSave ==
    /\ response = NoResponse
    /\ \E r \in BagToSet(inflight), saveErr \in BOOLEAN :
         /\ r.pc = "stamped"
         /\ r.handler = "report"
         /\ inflight' = Retire(r)
         /\ store' = (IF saveErr THEN store ELSE Save(r.host))
         /\ reported' = (IF saveErr THEN reported
                         ELSE reported \cup {r.loaded.CurrentSessionIDs})
         /\ succeeded' = (succeeded \/ (~saveErr /\ r.msg = "success"))
         /\ response' = SaveReply(Saving(r, saveErr), saveErr, 204, NoBody)
    /\ UNCHANGED <<boot, issued, allowForwarded, projectID, clock, nextID, admitted>>

ReceiveReport ==
    \/ ReceiveReportLoad
    \/ ReceiveReportStamp
    \/ ReceiveReportSave

----------------------------------------------------------------------------
(* Env.HandleExtension *)

\* handler.go:350-356: the envelope built for the backend.  RawQuery is not
\* among the fields the handler sets.
Envelope(host, client) ==
    [NoEnvelope EXCEPT !.hostname = host.Name, !.ipv4_address = host.IPv4Addr,
                       !.last_boot = host.LastSessionCreation]

\* handler.go:332-334: the session check of the extension handler.
ExtensionAuthorized(sessionID, host) ==
    sessionID = host.CurrentSessionIDs.ExtensionID

\* handler.go:339-362: the checks on the operation, in the order of the
\* code.  0 stands for "no error: go on to the backend".
ExtensionErrorRegistryFirst(operation) ==
    IF operation \notin DOMAIN Extensions THEN 500
    ELSE IF operation = "" THEN 400
    ELSE IF ~URLParses(Extensions[operation]) THEN 500
    ELSE 0

ExtensionError(operation) ==
    IF operation = "" THEN 400
    ELSE IF operation \notin DOMAIN Extensions THEN 500
    ELSE IF ~URLParses(Extensions[operation]) THEN 500
    ELSE 0

ExtensionErrorText(operation) ==
    IF operation = "" THEN "Zero length operation is invalid"
    ELSE IF operation \notin DOMAIN Extensions THEN "Unknown Extension for operation"
    ELSE "Failed to parse extension URL for operation"

\* handler.go:317-369.  The checks in the order of the code; the backend is
\* contacted by srv.ServeHTTP on the last line only.
HandleExtensionRotates ==
    /\ response = NoResponse
    /\ \E name \in Names, req \in Requests :
       \E outcome \in LoadOutcomes(name) :
         LET host == Load(name)
             ok == requestIsFromHost(req, host)
             rsp == [NoResponse EXCEPT !.handler = "extension", !.name = name,
                        !.before = store, !.after = store,
                        !.loadErr = outcome]
         IN  IF outcome # "ok"
             THEN response' = Error(rsp, 404, "load")
             ELSE IF ~ok
             THEN response' = Error([rsp EXCEPT !.loaded = host], 403,
                                    "Caller cannot access host")
             ELSE \E sid \in SessionIDChoices, operation \in Operations :
                  LET rop == [rsp EXCEPT !.loaded = host, !.sid = sid,
                                 !.sourceOK = ok, !.op = operation,
                                 !.replayed = Replayed(sid)]
                  IN  IF ~ExtensionAuthorized(sid, host)
                      THEN response' = Error(rop, 403,
                                             "Given session ID does not match host record")
                      ELSE IF ExtensionError(operation) # 0
                      THEN response' = Error(rop, ExtensionError(operation),
                                             ExtensionErrorText(operation))
                      ELSE \E backend \in BackendStatus, client \in ClientData :
                             response' = [rop EXCEPT !.status = backend,
                                            !.proxied = TRUE, !.body = BackendBody,
                                            !.client = client,
                                            !.envelope = Envelope(host, client),
                                            !.backendURL = Extensions[operation]]
    /\ store' = (IF response'.proxied
                 THEN Save([store[response'.name] EXCEPT
                               !.CurrentSessionIDs.ExtensionID = EmptyID])
                 ELSE store)
    /\ UNCHANGED <<boot, issued, allowForwarded, projectID, clock, nextID, admitted,
                   reported, succeeded, inflight>>

HandleExtension ==
    /\ response = NoResponse
    /\ \E name \in Names, req \in Requests :
       \E outcome \in LoadOutcomes(name) :
         LET host == Load(name)
             ok == requestIsFromHost(req, host)
             rsp == [NoResponse EXCEPT !.handler = "extension", !.name = name,
                        !.before = store, !.after = store,
                        !.loadErr = outcome]
         IN  IF outcome # "ok"
             THEN response' = Error(rsp, 404, "load")
             ELSE IF ~ok
             THEN response' = Error([rsp EXCEPT !.loaded = host], 403,
                                    "Caller cannot access host")
             ELSE \E sid \in SessionIDChoices, operation \in Operations :
                  LET rop == [rsp EXCEPT !.loaded = host, !.sid = sid,
                                 !.sourceOK = ok, !.op = operation,
                                 !.replayed = Replayed(sid)]
                  IN  IF ~ExtensionAuthorized(sid, host)
                      THEN response' = Error(rop, 403,
                                             "Given session ID does not match host record")
                      ELSE IF ExtensionError(operation) # 0
                      THEN response' = Error(rop, ExtensionError(operation),
                                             ExtensionErrorText(operation))
                      ELSE \E backend \in BackendStatus, client \in ClientData :
                             response' = [rop EXCEPT !.status = backend,
                                            !.proxied = TRUE, !.body = BackendBody,
                                            !.client = client,
                                            !.envelope = Envelope(host, client),
                                            !.backendURL = Extensions[operation]]
    /\ UNCHANGED <<boot, issued, allowForwarded, projectID, store, clock, nextID, admitted,
                   reported, succeeded, inflight>>

----------------------------------------------------------------------------
(* The boot client: cmd/epoxy_client main and nextboot.Config *)

\* Durations, in minutes.
Timeout == 360        \* const timeout = 6 * time.Hour
SleepMinutes == 1     \* time.Sleep(1 * time.Minute)
LargeTimeout == 120   \* const largeTimeout = 2 * time.Hour

\* Kernel arguments are sets of <<key, value>> pairs.
HasKarg(kargs, key) == \E kv \in kargs : kv[1] = key
KargValue(kargs, key) == (CHOOSE kv \in kargs : kv[1] = key)[2]
KargKeys(kargs) == {kv[1] : kv \in kargs}

\* ParseCmdline: the arguments of the kernel command line.
LocalKargs ==
    {<<"epoxy.stage2", "https://boot/stage2">>,
     <<"epoxy.report", "https://boot/report">>,
     <<"motd", "{{.vars.varkey}}">>}

\* The kargs of the document the action URL returns, and of a chained one.
RemoteKargs ==
    {<<"epoxy.stage2", "This value will not be copied.">>,
     <<"extra", "kargs">>}
ChainKargs ==
    {<<"epoxy.report", "https://elsewhere/report">>,
     <<"extra", "chained">>, <<"more", "kargs">>}

\* The -action flag: a parameter of the command line, or one that is absent.
Actions == {"epoxy.stage2", "epoxy.stage3"}

\* The names of the entries of v1.files.
AllFileNames == <<"vmlinuz", "initram", "rootfs", "config">>
FileNames == {AllFileNames[i] : i \in 1..MaxFiles}

\* The entries of v1.commands after evaluateCommands: a command line, or a
\* comment, which shlex.Split turns into an empty argument list.
AllCommands == <<"command", "comment", "command", "command", "comment", "command">>
Commands == SubSeq(AllCommands, 1, MaxCommands)

\* The environment of the process when it starts, and v1.env: it changes
\* two variables, one of them empty, and adds one; the empty name is one
\* that os.Setenv refuses.
ProcessEnv == {<<"PATH", "/bin">>, <<"HOME", "">>}
DocumentEnv ==
    {<<"PATH", "/custom/bin">>, <<"HOME", "/root">>, <<"EPOXY_NEW", "1">>,
     <<"", "nameless">>}

\* The n-th document loaded by a run; chain tells whether v1.chain is set.
NoV1 == [id |-> 0, chain |-> FALSE]
Document(n, chain) ==
    [err |-> "", V1 |-> [id |-> n, chain |-> chain],
     Kargs |-> IF n = 1 THEN RemoteKargs ELSE ChainKargs]
\* What a download yields: an error, a document without "v1", or a document.
LoadResults(n) ==
    {[err |-> e, V1 |-> NoV1, Kargs |-> {}] : e \in {"error", "nov1"}}
        \cup {Document(n, chain) :
                 chain \in IF n <= MaxChain THEN BOOLEAN ELSE {FALSE}}

\* The client before it is started.
NoClient ==
    [pc |-> "off", action |-> "", addKargs |-> FALSE, dryrun |-> FALSE,
     noRetry |-> FALSE, Kargs |-> {}, V1 |-> NoV1, now |-> 0,
     runErr |-> FALSE, mainRunErr |-> FALSE, result |-> <<>>, reported |-> <<>>,
     rebooted |-> FALSE, loads |-> 0, todo |-> {}, named |-> {}, tmp |-> {},
     created |-> {}, evaluated |-> {}, executed |-> {},
     errText |-> "", posted |-> "", env |-> {}, changed |-> {}, added |-> {},
     applied |-> FALSE, next |-> 0, spawned |-> <<>>, cmdline |-> <<>>,
     vars |-> {}, files |-> {}, envv |-> {}, argv |-> <<>>, passes |-> <<>>]

\* main up to the loop: flags parsed, command line parsed, deadline set.
StartClient(action, addKargs, dryrun, noRetry) ==
    [NoClient EXCEPT !.pc = "run", !.action = action, !.addKargs = addKargs,
                     !.dryrun = dryrun, !.noRetry = noRetry,
                     !.Kargs = LocalKargs, !.env = ProcessEnv]

\* The add-kargs merge: remote keys that are absent locally are added.
MergeKargs(local, remote) ==
    local \cup {kv \in remote : ~HasKarg(local, kv[1])}

\* loadAction, after a successful download and decode.
loadActionOverwritesKargs(c, n) ==
    [c EXCEPT !.V1 = n.V1, !.named = {}, !.Kargs = n.Kargs,
              !.loads = c.loads + 1]

loadAction(c, n) ==
    [c EXCEPT !.V1 = n.V1, !.named = {}, !.loads = c.loads + 1]

\* The condition of the loop of maybeLoadChain.
ChainPendingNever(c) == FALSE

ChainPending(c) == c.V1.chain

\* cleanupFiles: removes the file of every entry that has a "name".
cleanupFilesKeeps(c) == c

cleanupFiles(c) == [c EXCEPT !.tmp = c.tmp \ c.named]

\* os.Setenv and os.Unsetenv on an environment of <<name, value>> pairs;
\* both refuse an empty name.
Unsetenv(env, key) == {kv \in env : kv[1] # key \/ key = ""}
Setenv(env, key, val) ==
    IF key = "" THEN env ELSE Unsetenv(env, key) \cup {<<key, val>>}

\* updateCurrentEnv: unsets the names of delenv, then sets every variable
\* of setenv, recording the old value of those found and the name of those
\* not found.  The names of a map are distinct, so the order of the loop
\* makes no difference.
updateCurrentEnvKeepsAdded(env, setenv, delenv) ==
    [env |-> {kv \in env : ~HasKarg(setenv, kv[1])}
                \cup {kv \in setenv : kv[1] # ""},
     changed |-> {kv \in env : HasKarg(setenv, kv[1])},
     added |-> {<<kv[1], "">> : kv \in {kw \in setenv : ~HasKarg(env, kw[1])}}]

updateCurrentEnv(env, setenv, delenv) ==
    LET unset == {kv \in env : ~HasKarg(delenv, kv[1])}
    IN [env |-> {kv \in unset : ~HasKarg(setenv, kv[1])}
                   \cup {kv \in setenv : kv[1] # ""},
        changed |-> {kv \in unset : HasKarg(setenv, kv[1])},
        added |-> {<<kv[1], "">> :
                     kv \in {kw \in setenv : ~HasKarg(unset, kw[1])}}]

\* main: the message of the report for what Run returned.
ResultAlwaysSuccess(err) == <<"success">>

Result(err) == IF err # "" THEN <<"error: ", err>> ELSE <<"success">>

\* Run returns err to main ("" for nil): result is set.
Returned(c, err) ==
    [c EXCEPT !.pc = "report", !.runErr = (err # ""), !.errText = err,
              !.result = Result(err)]

\* runCommands returns after updateCurrentEnv was deferred: the deferred
\* calls run last in, first out.
Deferred(c) ==
    cleanupFiles([c EXCEPT !.env = updateCurrentEnv(c.env, c.changed, c.added).env])

\* cmd.Run returned an error: the command exited non-zero, or was killed
\* when its context timed out.
CommandFailedNever(outcome) == FALSE

CommandFailed(outcome) == outcome # "ok"

(* nextboot.Config: templates *)

\* A string that may hold template syntax is the sequence of its segments:
\* plain text, a space, the text of an action ({{kargs `k`}}, {{.vars.k}},
\* {{.files.k.f}}), an action that template.Parse rejects, the start of a
\* shell comment, an unclosed quote, or the path of a temporary file.
Lit(str) == <<"lit", str>>
Space == <<"space", " ">>
NoValue == Lit("<no value>")
Broken == <<"{{", "">>
Comment == <<"#", "">>
OpenQuote == <<"'", "">>
TempName(name) == <<"tmpfile", name>>

\* The segments of a value of the kernel command line.
Segments(str) ==
    IF str = "{{.vars.varkey}}" THEN << <<"vars", "varkey">> >> ELSE <<Lit(str)>>

RECURSIVE Flatten(_)
Flatten(texts) ==
    IF texts = <<>> THEN <<>> ELSE Head(texts) \o Flatten(Tail(texts))

\* The flags of evaluateAsTemplate.
useVars == "vars"
useFiles == "files"

\* What t.Execute writes for one segment: the kargs function returns the
\* value of the key or the empty string; .vars and .files are fields of the
\* namespace map, and a field that is missing prints as "<no value>".
Execute(c, seg, flags) ==
    CASE seg[1] = "kargs" ->
           IF HasKarg(c.Kargs, seg[2])
           THEN Segments(KargValue(c.Kargs, seg[2])) ELSE <<>>
      [] seg[1] = "vars" ->
           IF useVars \in flags /\ HasKarg(c.vars, seg[2])
           THEN KargValue(c.vars, seg[2]) ELSE <<NoValue>>
      [] seg[1] = "files" ->
           IF useFiles \in flags
              /\ \E f \in c.files : f[1] = seg[2] /\ f[2] = seg[3]
           THEN (CHOOSE f \in c.files : f[1] = seg[2] /\ f[2] = seg[3])[3]
           ELSE <<NoValue>>
      [] OTHER -> <<seg>>

\* evaluateAsTemplate: the error of Parse, else the output of Execute.
evaluateAsTemplateAllFlags(c, value, flags) ==
    [err |-> \E i \in DOMAIN value : value[i] = Broken,
     val |-> Flatten([i \in DOMAIN value |->
                        Execute(c, value[i], {useVars, useFiles})])]

evaluateAsTemplate(c, value, flags) ==
    [err |-> \E i \in DOMAIN value : value[i] = Broken,
     val |-> Flatten([i \in DOMAIN value |-> Execute(c, value[i], flags)])]

\* shlex.Split: the fields between spaces, up to a comment; an error for a
\* quote that is not closed.
RECURSIVE SplitFields(_)
SplitFields(text) ==
    IF \A i \in DOMAIN text : text[i] # Space
    THEN IF text = <<>> THEN <<>> ELSE <<text>>
    ELSE LET i == CHOOSE j \in DOMAIN text :
                    text[j] = Space /\ \A k \in 1..(j - 1) : text[k] # Space
             rest == SplitFields(SubSeq(text, i + 1, Len(text)))
         IN  IF i = 1 THEN rest ELSE <<SubSeq(text, 1, i - 1)>> \o rest

shlexSplit(text) ==
    LET cut == {i \in DOMAIN text : text[i] = Comment}
        stop == IF cut = {} THEN Len(text)
                ELSE (CHOOSE i \in cut : \A j \in cut : i <= j) - 1
    IN  [err |-> \E i \in 1..stop : text[i] = OpenQuote,
         args |-> SplitFields(SubSeq(text, 1, stop))]

\* v1.vars of a document: a greeting built from a karg, and a variable that
\* tries to read a variable and a file; or the same with a malformed entry.
V1Vars ==
    {<<"varkey", <<Lit("hello, "), <<"kargs", "extra">> >> >>,
     <<"probe", << <<"vars", "varkey">>, <<"files", "vmlinuz", "name">> >> >>}
DocumentVars == {V1Vars, V1Vars \cup {<<"broken", <<Broken>> >>}}

\* The url of an entry of v1.files: it reads a karg, a variable and the
\* local names of the first two files.
V1FileURL(name) ==
    <<Lit("http://f/"), Lit(name), <<"kargs", "extra">>, <<"vars", "varkey">>,
      <<"files", AllFileNames[1], "name">>, <<"files", AllFileNames[2], "name">> >>

\* The templates of v1.env, under the names of DocumentEnv.
V1Env ==
    {<<"PATH", <<Lit("/custom/bin:"), <<"vars", "varkey">> >> >>,
     <<"EPOXY_NEW", << <<"files", AllFileNames[1], "name">>,
                       <<"kargs", "extra">> >> >>}
DocumentEnvs == {V1Env, V1Env \cup {<<"HOME", <<Broken>> >>}}

\* The entries of v1.commands: a string, or a list of strings.
StringCommand(text) == [type |-> "string", text |-> text, args |-> <<>>]
ListCommand(args) == [type |-> "list", text |-> <<>>, args |-> args]
V1Command(i) ==
    IF AllCommands[i] = "comment"
    THEN StringCommand(<<Comment, Lit("a comment")>>)
    ELSE IF i = 3
    THEN ListCommand(<< <<Lit("/bin/echo")>>, << <<"vars", "varkey">> >>,
                        << <<"kargs", "motd">> >> >>)
    ELSE StringCommand(<<Lit("/sbin/kexec"), Space, Lit("--initrd"), Space,
                         <<"files", AllFileNames[1], "name">>, Space,
                         <<"kargs", "motd">> >>)
V1Commands == [i \in 1..MaxCommands |-> V1Command(i)]
DocumentCommands ==
    {V1Commands,
     [V1Commands EXCEPT ![1] = StringCommand(<<Lit("/bin/sh"), Space, OpenQuote>>)],
     [V1Commands EXCEPT ![3] = ListCommand(<< <<Lit("/bin/echo")>>, <<Broken>> >>)]}

\* evaluateVars: every entry is evaluated with the kargs function alone.
evaluateVarsResult(c, v1vars) ==
    LET d == [c EXCEPT !.vars = v1vars]
    IN  [err |-> \E kv \in v1vars : evaluateAsTemplate(d, kv[2], {}).err,
         vars |-> {<<kv[1], evaluateAsTemplate(d, kv[2], {}).val>> : kv \in v1vars}]

\* evaluateEnv: every entry is evaluated with vars and files.
evaluateEnvResult(c, env) ==
    [err |-> \E kv \in env :
               evaluateAsTemplate(c, kv[2], {useVars, useFiles}).err,
     env |-> {<<kv[1], evaluateAsTemplate(c, kv[2], {useVars, useFiles}).val>> :
                kv \in env}]

\* evaluateCommands.  First pass: a string is evaluated and split, a list
\* is left as it is.  Second pass: every element of every list is evaluated.
evaluateCommandsResult(c, commands) ==
    LET split(cmd) ==
            IF cmd.type = "string"
            THEN LET e == evaluateAsTemplate(c, cmd.text, {useVars, useFiles})
                 IN  [err |-> e.err \/ shlexSplit(e.val).err,
                      args |-> shlexSplit(e.val).args]
            ELSE [err |-> FALSE, args |-> cmd.args]
        evaluate(args) ==
            [err |-> \E i \in DOMAIN args :
                       evaluateAsTemplate(c, args[i], {useVars, useFiles}).err,
             args |-> [i \in DOMAIN args |->
                         evaluateAsTemplate(c, args[i], {useVars, useFiles}).val]]
        first == [i \in DOMAIN commands |-> split(commands[i])]
        second == [i \in DOMAIN commands |-> evaluate(first[i].args)]
    IN  [err |-> \E i \in DOMAIN commands : first[i].err \/ second[i].err,
         argv |-> [i \in DOMAIN commands |-> second[i].args]]

\* The passes of runCommands that have ended, each with its outcome.
Passed(c, pass, ok) == [c EXCEPT !.passes = Append(c.passes, <<pass, ok>>)]

----------------------------------------------------------------------------
(* nextboot.Config.Run and main *)

\* Run, up to and including loadAction of the action URL.
Run ==
    /\ boot.pc = "run"
    /\ LET c == boot
       IN IF ~HasKarg(c.Kargs, c.action)
          THEN boot' = Returned(c, "action url not found")
          ELSE \E n \in LoadResults(1) :
                 CASE n.err = "error" -> boot' = Returned(c, "bad status code")
                   [] n.err = "nov1" -> boot' = [c EXCEPT !.pc = "panic"]
                   [] OTHER ->
                        boot' = [loadAction(c, n) EXCEPT
                                   !.pc = "chain",
                                   !.Kargs = IF c.addKargs
                                             THEN MergeKargs(c.Kargs, n.Kargs)
                                             ELSE loadAction(c, n).Kargs]
    /\ UNCHANGED serverVars

\* One turn of the loop of maybeLoadChain.
maybeLoadChain ==
    /\ boot.pc = "chain"
    /\ IF ~ChainPending(boot)
       THEN boot' = [boot EXCEPT !.pc = "vars"]
       ELSE \E n \in LoadResults(boot.loads + 1) :
              CASE n.err = "error" -> boot' = Returned(boot, "download failed")
                [] n.err = "nov1" -> boot' = [boot EXCEPT !.pc = "panic"]
                [] OTHER -> boot' = loadAction(boot, n)
    /\ UNCHANGED serverVars

\* runCommands: evaluateVars, before cleanupFiles is deferred.
evaluateVars ==
    /\ boot.pc = "vars"
    /\ LET c == [boot EXCEPT !.evaluated = boot.evaluated \cup {boot.V1.id}]
       IN \E v1vars \in DocumentVars :
            LET r == evaluateVarsResult(c, v1vars)
            IN boot' = IF r.err THEN Returned(Passed(c, "vars", FALSE), "template")
                       ELSE [Passed(c, "vars", TRUE) EXCEPT
                               !.pc = "files", !.todo = FileNames,
                               !.vars = r.vars]
    /\ UNCHANGED serverVars

\* What happens to one entry of v1.files.
FileOutcomes == {"nourl", "template", "tempfile", "download", "checksum", "ok"}

\* The error a failed entry returns.
FileError(outcome) ==
    CASE outcome = "nourl" -> "file url not found"
      [] outcome = "download" -> "download failed"
      [] outcome = "checksum" -> "checksum mismatch"
      [] OTHER -> outcome

\* evaluateAndDownloadFiles: one turn of its loop, or its return; an error
\* returns from runCommands through the deferred cleanupFiles.
evaluateAndDownloadFiles ==
    /\ boot.pc = "files"
    /\ IF boot.todo = {}
       THEN boot' = [Passed(boot, "files", TRUE) EXCEPT !.pc = "env"]
       ELSE \E name \in boot.todo, outcome \in FileOutcomes :
              LET failed == Passed(boot, "files", FALSE)
                  url == evaluateAsTemplate(boot, V1FileURL(name), {useVars}).val
                  made == [boot EXCEPT
                             !.tmp = boot.tmp \cup {name},
                             !.created = boot.created \cup {name},
                             !.files = boot.files \cup {<<name, "url", url>>}]
              IN CASE outcome \in {"nourl", "template", "tempfile"} ->
                        boot' = Returned(cleanupFiles(failed), FileError(outcome))
                   [] outcome \in {"download", "checksum"} ->
                        /\ ~boot.dryrun
                        /\ boot' = Returned(cleanupFiles(
                                      [Passed(made, "files", FALSE) EXCEPT
                                         !.tmp = made.tmp \ {name}]),
                                      FileError(outcome))
                   [] OTHER ->
                        boot' = [made EXCEPT
                                   !.todo = boot.todo \ {name},
                                   !.named = boot.named \cup {name},
                                   !.files = made.files \cup
                                      {<<name, "name", <<TempName(name)>> >>}]
    /\ UNCHANGED serverVars

\* runCommands: evaluateEnv.
evaluateEnv ==
    /\ boot.pc = "env"
    /\ \E env \in DocumentEnvs :
         LET r == evaluateEnvResult(boot, env)
         IN boot' = IF r.err
                    THEN Returned(cleanupFiles(Passed(boot, "env", FALSE)), "template")
                    ELSE [Passed(boot, "env", TRUE) EXCEPT
                            !.pc = "commands", !.envv = r.env]
    /\ UNCHANGED serverVars

\* runCommands: evaluateCommands, then v1.env is applied to the process
\* and its restoration deferred.
evaluateCommands ==
    /\ boot.pc = "commands"
    /\ \E commands \in DocumentCommands :
         LET r == evaluateCommandsResult(boot, commands)
             u == updateCurrentEnv(boot.env, DocumentEnv, {})
         IN boot' = IF r.err
                    THEN Returned(cleanupFiles(Passed(boot, "commands", FALSE)),
                                  "template")
                    ELSE [Passed(boot, "commands", TRUE) EXCEPT
                            !.pc = "exec", !.env = u.env,
                            !.changed = u.changed, !.added = u.added,
                            !.applied = TRUE, !.next = 1, !.argv = r.argv]
    /\ UNCHANGED serverVars

\* runCommands: one turn of the loop over the commands, or the return.
runCommands ==
    /\ boot.pc = "exec"
    /\ IF boot.next > Len(boot.argv)
       THEN boot' = Returned(Deferred(boot), "")
       ELSE IF Len(boot.argv[boot.next]) = 0 \/ boot.dryrun
            THEN boot' = [boot EXCEPT !.next = boot.next + 1]
            ELSE \E outcome \in {"ok", "nonzero", "timeout"} :
                   LET ran == [boot EXCEPT
                                 !.executed = boot.executed \cup {boot.V1.id},
                                 !.spawned = Append(boot.spawned,
                                                    <<boot.next, outcome>>)]
                   IN boot' = IF CommandFailed(outcome)
                              THEN Returned(Deferred(ran), "command failed")
                              ELSE [ran EXCEPT !.next = boot.next + 1]
    /\ UNCHANGED serverVars

\* main: c.Report; its error is logged and dropped.
Report ==
    /\ boot.pc = "report"
    /\ \E err \in BOOLEAN :
         boot' = IF ~HasKarg(boot.Kargs, "epoxy.report")
                 THEN [boot EXCEPT !.pc = "check", !.posted = "no url"]
                 ELSE IF boot.dryrun
                      THEN [boot EXCEPT !.pc = "check", !.posted = "printed"]
                      ELSE IF err
                           THEN [boot EXCEPT !.pc = "check", !.posted = "failed"]
                           ELSE [boot EXCEPT !.pc = "check", !.posted = "sent",
                                             !.reported = boot.result]
    /\ UNCHANGED serverVars

\* main: the condition of the break at the end of a turn of the retry loop,
\* read at time now.
LoopEndsOnReportFailure(c, now) ==
    c.noRetry \/ ~c.runErr \/ now > Timeout \/ c.posted = "failed"

LoopEnds(c, now) == c.noRetry \/ ~c.runErr \/ now > Timeout

\* main: the end of a turn of the retry loop.  The run and the report took
\* some time; runErr is the variable declared inside the loop.
mainCheck ==
    /\ boot.pc = "check"
    /\ \E spent \in {0, LargeTimeout} :
         LET now == boot.now + spent
         IN boot' = [boot EXCEPT
                       !.now = now,
                       !.pc = IF LoopEnds(boot, now) THEN "after" ELSE "sleep"]
    /\ UNCHANGED serverVars

\* main: time.Sleep before the next turn; what the last turn did is
\* forgotten, and so is result, which is assigned again before it is read.
mainSleep ==
    /\ boot.pc = "sleep"
    /\ boot' = [boot EXCEPT !.pc = "run", !.now = boot.now + SleepMinutes,
                            !.loads = 0, !.todo = {}, !.created = {},
                            !.evaluated = {}, !.executed = {},
                            !.errText = "", !.result = <<>>, !.reported = <<>>,
                            !.posted = "", !.changed = {}, !.added = {},
                            !.applied = FALSE, !.next = 0, !.spawned = <<>>,
                            !.vars = {}, !.files = {}, !.envv = {},
                            !.argv = <<>>, !.passes = <<>>]
    /\ UNCHANGED serverVars

\* main, after the loop: runErr is the variable declared at the top of main,
\* which nothing assigns.
mainExit ==
    /\ boot.pc = "after"
    /\ boot' = [boot EXCEPT !.pc = "exit",
                            !.rebooted = boot.mainRunErr]
    /\ UNCHANGED serverVars

ClientInit ==
    /\ allowForwarded = FALSE
    /\ projectID = ""
    /\ store = [n \in {HostName} |-> NewHost(TRUE)]
    /\ clock = 1
    /\ nextID = 1
    /\ admitted = 0
    /\ reported = {}
    /\ succeeded = FALSE
    /\ inflight = EmptyBag
    /\ response = NoResponse
    /\ issued = <<>>
    /\ \E action \in Actions, addKargs \in BOOLEAN, dryrun \in BOOLEAN,
          noRetry \in BOOLEAN :
         boot = StartClient(action, addKargs, dryrun, noRetry)

ClientNext ==
    \/ Run
    \/ maybeLoadChain
    \/ evaluateVars
    \/ evaluateAndDownloadFiles
    \/ evaluateEnv
    \/ evaluateCommands
    \/ runCommands
    \/ Report
    \/ mainCheck
    \/ mainSleep
    \/ mainExit

ClientSpec == ClientInit /\ [][ClientNext]_vars

----------------------------------------------------------------------------
(* nextboot.Config.ParseCmdline *)

\* A command line is a sequence of characters; two letters, the equal sign
\* and the three kinds of white space a kernel command line file can hold.
Chars == {"a", "b", "=", " ", "\t", "\n"}
Cmdlines == UNION {[1..n -> Chars] : n \in 0..MaxLen}

\* strings.Trim(s, cutset)
Trim(str, cutset) ==
    LET keep == {i \in 1..Len(str) : str[i] \notin cutset}
    IN IF keep = {} THEN <<>>
       ELSE SubSeq(str, CHOOSE i \in keep : \A j \in keep : i <= j,
                        CHOOSE i \in keep : \A j \in keep : i >= j)

\* strings.Split(s, sep) for a separator of one character: one more piece
\* than there are separators, empty pieces included.
RECURSIVE Split(_, _)
Split(str, sep) ==
    LET at == {i \in 1..Len(str) : str[i] = sep}
    IN IF at = {} THEN <<str>>
       ELSE LET i == CHOOSE k \in at : \A j \in at : k <= j
            IN <<SubSeq(str, 1, i - 1)>> \o Split(SubSeq(str, i + 1, Len(str)), sep)

\* strings.SplitN(s, "=", 2): the text before the first "=" and the text
\* after it, or s alone.
SplitN2(str) ==
    LET at == {i \in 1..Len(str) : str[i] = "="}
    IN IF at = {} THEN <<str>>
       ELSE LET i == CHOOSE k \in at : \A j \in at : k <= j
            IN <<SubSeq(str, 1, i - 1), SubSeq(str, i + 1, Len(str))>>

\* kargs[key] = val on a map held as a set of <<key, value>> pairs.
SetKarg(kargs, key, val) == {kv \in kargs : kv[1] # key} \cup {<<key, val>>}

\* The loop of ParseCmdline over the first n parameters.
RECURSIVE ParseParams(_, _)
ParseParams(params, n) ==
    IF n = 0 THEN {}
    ELSE LET keyval == SplitN2(params[n])
         IN SetKarg(ParseParams(params, n - 1), keyval[1],
                    IF Len(keyval) = 2 THEN keyval[2] ELSE <<>>)

\* ParseCmdline: the value assigned to c.Kargs.
ParseCmdline(cmdline) ==
    LET params == Split(Trim(cmdline, {" ", "\n"}), " ")
    IN ParseParams(params, Len(params))

\* main: the command line file is read and parsed into a Config that may
\* hold kargs already.
mainParseCmdline ==
    /\ boot.pc = "cmdline"
    /\ boot' = [boot EXCEPT !.pc = "parsed", !.Kargs = ParseCmdline(boot.cmdline)]
    /\ UNCHANGED serverVars

ParseInit ==
    /\ allowForwarded = FALSE
    /\ projectID = ""
    /\ store = [n \in {HostName} |-> NewHost(TRUE)]
    /\ clock = 1
    /\ nextID = 1
    /\ admitted = 0
    /\ reported = {}
    /\ succeeded = FALSE
    /\ inflight = EmptyBag
    /\ response = NoResponse
    /\ issued = <<>>
    /\ \E cmdline \in Cmdlines, prior \in {{}, {<<<<"b">>, <<"a">>>>}} :
         boot = [NoClient EXCEPT !.pc = "cmdline", !.cmdline = cmdline,
                                 !.Kargs = prior]

ParseNext == mainParseCmdline

ParseSpec == ParseInit /\ [][ParseNext]_vars

----------------------------------------------------------------------------
(* Env.requestIsFromHost on its own *)

\* The X-Forwarded-For headers of up to MaxForwarded elements, and the
\* addresses net/http puts in RemoteAddr.
LongForwardedHeaders ==
    UNION {[1..n -> {HostIP, OtherIP, ""}] : n \in 0..MaxForwarded}

\* A handler has loaded the host and calls env.requestIsFromHost(req, host).
CallRequestIsFromHost ==
    /\ response.handler = ""
    /\ response' = [response EXCEPT
                      !.handler = "requestIsFromHost",
                      !.sourceOK = requestIsFromHost(response.req, response.loaded)]
    /\ UNCHANGED <<boot, issued, allowForwarded, projectID, store, clock, nextID,
                   admitted, reported, succeeded, inflight>>

SourceInit ==
    /\ allowForwarded \in BOOLEAN
    /\ projectID = ""
    /\ store = [n \in {HostName} |-> NewHost(TRUE)]
    /\ clock = 1
    /\ nextID = 1
    /\ admitted = 0
    /\ reported = {}
    /\ succeeded = FALSE
    /\ inflight = EmptyBag
    /\ \E req \in [RemoteAddr : RemoteAddrs, XForwardedFor : LongForwardedHeaders] :
         response = [NoResponse EXCEPT !.req = req, !.name = HostName,
                                       !.loaded = Load(HostName)]
    /\ issued = <<>>
    /\ boot = NoClient

SourceSpec == SourceInit /\ [][CallRequestIsFromHost]_vars

----------------------------------------------------------------------------
(* The specification *)

\* The response has left the server.
Flush ==
    /\ response # NoResponse
    /\ response' = NoResponse
    /\ UNCHANGED <<boot, issued, allowForwarded, projectID, store, clock, nextID, admitted,
                   reported, succeeded, inflight>>

Init ==
    /\ allowForwarded \in BOOLEAN
    /\ projectID \in {"", "mlab-sandbox"}
    /\ store = [n \in {HostName} |-> NewHost(TRUE)]
    /\ clock = 1
    /\ nextID = 1
    /\ admitted = 0
    /\ reported = {}
    /\ succeeded = FALSE
    /\ inflight = EmptyBag
    /\ response = NoResponse
    /\ issued = <<>>
    /\ boot = NoClient

Next ==
    \/ GenerateStage1IPXE
    \/ GenerateStage1JSON
    \/ GenerateJSONConfig
    \/ ReceiveReport
    \/ HandleExtension
    \/ Flush

Spec == Init /\ [][Next]_vars

\* The server with a host that has booted once: a stage-1 request read the
\* first four values of the random source at time 1 and saved the record.
BootedHost == GenerateSessionIDs(NewHost(TRUE), 1, 1)

BootedInit ==
    /\ allowForwarded \in BOOLEAN
    /\ projectID \in {"", "mlab-sandbox"}
    /\ store = [n \in {HostName} |-> BootedHost]
    /\ clock = 1
    /\ nextID = 5
    /\ admitted = 0
    /\ reported = {}
    /\ succeeded = FALSE
    /\ inflight = EmptyBag
    /\ response = NoResponse
    /\ issued = <<[ids |-> BootedHost.CurrentSessionIDs, loaded |-> ZeroSessionIDs]>>
    /\ boot = NoClient

BootedSpec == BootedInit /\ [][Next]_vars

----------------------------------------------------------------------------
(* Reading a response *)

Range(f) == {f[i] : i \in DOMAIN f}

\* The values a body hands to the client: the third word of each "set" line
\* of a script, the value of each kernel argument of an action.
BodyValues(body) ==
    {l[3] : l \in {m \in Range(body.script) : Len(m) = 3}}
        \cup {kv[2] : kv \in body.kargs}

\* The URLs under /v1/boot/ among them, and the session IDs they carry.
BodyURLs(body) == {u \in BodyValues(body) : Len(u) >= 4}
BodyIDs(body) == {u[3] : u \in BodyURLs(body)}
IDsFor(body, target) == {u[3] : u \in {v \in BodyURLs(body) : v[4] = target}}

\* The response answers a request whose record was loaded.
ForExistingHost == response.status # 0 /\ response.loadErr = "ok"

\* The endpoints that take a session ID, and the ID of a record that
\* belongs to each.
SessionEndpoints == {Stage2, Stage3, "report", "extension"}
OwnID(handler, ids) ==
    CASE handler = Stage2 -> ids.Stage2ID
      [] handler = Stage3 -> ids.Stage3ID
      [] handler = "report" -> ids.ReportID
      [] handler = "extension" -> ids.ExtensionID

----------------------------------------------------------------------------
(* Claims *)

\* C1: on every per-host endpoint a request for an existing host whose
\* origin fails the source-IP rule is answered 403 and changes nothing in
\* the store; it never gets a 2xx.
C1_SourceRuleOnEveryEndpoint ==
    (ForExistingHost /\ ~response.sourceOK) =>
        /\ response.status = 403
        /\ ~response.saveCalled
        /\ store = response.before

\* C2: an accepted report (source rule passed, sid equal to the loaded
\* record's ReportID) whose message is "success" is answered 204 once saved,
\* and the saved record has UpdateEnabled false and LastSuccess =
\* LastReport = the handler's clock reading, not earlier than
\* LastSessionCreation.
C2_SuccessReport ==
    (/\ response.handler = "report"
     /\ ForExistingHost
     /\ response.sourceOK
     /\ response.sid = response.loaded.CurrentSessionIDs.ReportID
     /\ response.msg = "success") =>
        /\ response.saveCalled
        /\ response.status = (IF response.wrote THEN 204 ELSE 500)
        /\ response.saved.UpdateEnabled = FALSE
        /\ response.saved.LastSuccess = response.now
        /\ response.saved.LastReport = response.now
        /\ response.saved.LastSuccess >= response.saved.LastSessionCreation
        /\ response.wrote => store[response.name] = response.saved

C2_Witness ==
    /\ response.handler = "report"
    /\ response.status = 204
    /\ response.msg = "success"
    /\ response.loaded.UpdateEnabled
    /\ response.loaded.LastSessionCreation > 0
    /\ store[response.name].UpdateEnabled = FALSE
    /\ store[response.name].LastSuccess = response.now

\* C3: an accepted report whose message is anything but "success" (the
\* missing message included) is saved with only LastReport set to the
\* clock reading: UpdateEnabled, LastSuccess and every other field are those
\* of the loaded record.
C3_OtherReport ==
    (/\ response.handler = "report"
     /\ ForExistingHost
     /\ response.sourceOK
     /\ response.sid = response.loaded.CurrentSessionIDs.ReportID
     /\ response.msg # "success") =>
        /\ response.saveCalled
        /\ response.status = (IF response.wrote THEN 204 ELSE 500)
        /\ response.saved = [response.loaded EXCEPT !.LastReport = response.now]
        /\ response.wrote => store[response.name] = response.saved

C3_Witness ==
    /\ response.handler = "report"
    /\ response.status = 204
    /\ response.msg = ""
    /\ response.loaded.UpdateEnabled
    /\ response.loaded.LastReport < response.now
    /\ store[response.name].UpdateEnabled
    /\ store[response.name].LastReport = response.now
    /\ store[response.name].LastSuccess = 0

\* C4: a report whose sid is not the ReportID of the loaded record is
\* answered 403 and nothing is saved, whatever its message.
C4_ReportSessionCheck ==
    (/\ response.handler = "report"
     /\ ForExistingHost
     /\ response.sourceOK
     /\ response.sid # response.loaded.CurrentSessionIDs.ReportID) =>
        /\ response.status = 403
        /\ ~response.saveCalled
        /\ store = response.before

C4_Witness ==
    /\ response.handler = "report"
    /\ response.status = 403
    /\ response.sourceOK
    /\ response.msg = "success"
    /\ response.sid = response.loaded.CurrentSessionIDs.Stage2ID
    /\ response.sid # EmptyID
    /\ response.loaded.UpdateEnabled
    /\ store = response.before

\* C5: a stage-1 request answered 200 has replaced all four session IDs and
\* LastSessionCreation and nothing else, none of the loaded record's IDs
\* remains, the record was saved before the response, and the URLs of the
\* response carry exactly the four saved IDs, each in its own URL.
C5_Stage1Rotates ==
    (response.handler \in {Stage1IPXE, Stage1JSON} /\ response.status = 200) =>
        LET old == response.loaded
            new == response.saved
            ids == new.CurrentSessionIDs
        IN  /\ response.wrote
            /\ store[response.name] = new
            /\ new = [old EXCEPT !.CurrentSessionIDs = ids,
                                 !.LastSessionCreation = response.now]
            /\ Cardinality(SessionIDSet(new)) = 4
            /\ EmptyID \notin SessionIDSet(new)
            /\ SessionIDSet(new) \cap SessionIDSet(old) = {}
            /\ BodyIDs(response.body) = SessionIDSet(new)
            /\ IDsFor(response.body, "stage2") = {ids.Stage2ID}
            /\ IDsFor(response.body, "stage3") = {ids.Stage3ID}
            /\ IDsFor(response.body, "report") = {ids.ReportID}
            /\ IDsFor(response.body, "extension") = {ids.ExtensionID}

C5_Witness ==
    /\ response.handler = Stage1IPXE
    /\ response.status = 200
    /\ EmptyID \notin SessionIDSet(response.loaded)
    /\ store[response.name] = response.saved
    /\ SessionIDSet(response.saved) \cap SessionIDSet(response.loaded) = {}
    /\ BodyIDs(response.body) = SessionIDSet(response.saved)

\* C6: when the save of a stage-1 request or of a report fails, the answer
\* is 500, the store is what it was, and the body holds none of the IDs
\* that were minted.
C6_SaveFailure ==
    (response.saveCalled /\ ~response.wrote) =>
        /\ response.status = 500
        /\ store = response.before
        /\ BodyIDs(response.body) = {}

C6_Witness ==
    /\ response.handler = Stage1IPXE
    /\ response.saveCalled
    /\ ~response.wrote
    /\ response.status = 500
    /\ response.saved.CurrentSessionIDs # response.loaded.CurrentSessionIDs
    /\ store[response.name].CurrentSessionIDs = response.loaded.CurrentSessionIDs

\* C7: a session ID authorizes one category of request only: a current ID
\* of the record presented at an endpoint of another category is answered
\* 403.
C7_OneCategoryPerID ==
    (/\ response.handler \in SessionEndpoints
     /\ ForExistingHost
     /\ response.sourceOK
     /\ response.sid # EmptyID
     /\ response.sid \in SessionIDSet(response.loaded)
     /\ response.sid # OwnID(response.handler, response.loaded.CurrentSessionIDs)) =>
        response.status = 403

\* C8: the extension handler checks in the order host (404), source (403),
\* session (403), empty operation (400), registry (500), backend URL (500);
\* the first failure is the answer, and the backend is contacted exactly
\* when all of them pass.  The store is never changed.
C8_ExtensionOrder ==
    response.handler = "extension" =>
        LET host == response.loaded
            exists == response.loadErr = "ok"
            source == exists /\ response.sourceOK
            session == source /\ response.sid = host.CurrentSessionIDs.ExtensionID
            named == session /\ response.op # ""
            registered == named /\ response.op \in DOMAIN Extensions
            parsed == registered /\ URLParses(Extensions[response.op])
        IN  /\ ~exists => response.status = 404
            /\ exists /\ ~source => response.status = 403
            /\ source /\ ~session => response.status = 403
            /\ session /\ ~named => response.status = 400
            /\ named /\ ~registered => response.status = 500
            /\ registered /\ ~parsed => response.status = 500
            /\ response.proxied <=> parsed
            /\ store = response.before

C8_Witness ==
    /\ response.handler = "extension"
    /\ response.status = 400
    /\ response.op = ""
    /\ response.sourceOK
    /\ response.sid # EmptyID
    /\ response.sid = response.loaded.CurrentSessionIDs.ExtensionID
    /\ ~response.proxied

\* C9: an extension request is forwarded to the backend only for an
\* operation listed in the Extensions field of the host's record.
C9_OnlyListedOperations ==
    (response.handler = "extension" /\ response.proxied) =>
        response.op \in Range(response.loaded.Extensions)

\* C10: once a report of a boot has been saved, a request bearing the
\* report ID, a stage ID or the extension ID of that boot is answered 403.
C10_ReportInvalidates ==
    (/\ response.handler \in SessionEndpoints
     /\ ForExistingHost
     /\ response.sourceOK
     /\ response.replayed) =>
        response.status = 403

ChainOf(body) ==
    IF body.type = "ipxe"
    THEN CHOOSE u \in {l[3] : l \in {m \in Range(body.script) :
                                       Len(m) = 3 /\ m[2] = <<"stage1chain", "_url">>}} : TRUE
    ELSE body.chain

StageResponse ==
    /\ response.handler \in {Stage1IPXE, Stage1JSON, Stage2, Stage3}
    /\ response.status = 200

C14_LoadErrors ==
    /\ response.loadErr = "notfound" => response.status = 404
    /\ response.loadErr = "error" => response.status = 500
    /\ response.loadErr \in {"notfound", "error"} =>
          ~response.saveCalled /\ store = response.before

\* C15: when the random source fails during a stage-1, the request is
\* answered 500 and nothing is saved.
C15_RandomFailure ==
    response.panicked =>
        /\ response.status = 500
        /\ ~response.saveCalled
        /\ store = response.before

\* C16: the body sent to the backend is the envelope with the hostname, the
\* IPv4 address and the last boot of the loaded record and the query string
\* of the client's request.
C16_Envelope ==
    (response.handler = "extension" /\ response.proxied) =>
        response.envelope =
            [hostname |-> response.loaded.Name,
             ipv4_address |-> response.loaded.IPv4Addr,
             ipv6_address |-> "",
             last_boot |-> response.loaded.LastSessionCreation,
             raw_query |-> response.client.query]

\* C25 (as stated): the stage-1 iPXE script begins with #!ipxe, has one
\* chain directive, one "set <op>_url" line, built with the extension
\* session ID, for each operation of the host's extensions and for no other
\* operation, and a "set images_version" line exactly when the host's
\* images_version is not empty.  The variable images_version is written
\* <<"images", "_version">>.
C25_Stage1Script ==
    (response.handler = Stage1IPXE /\ response.status = 200) =>
        LET h == response.saved
            script == response.body.script
            sets == {l \in Range(script) : Len(l) = 3 /\ l[1] = "set"}
            fixed == {"stage1chain", "stage2", "stage3", "report"}
            ops == Range(h.Extensions)
        IN /\ script[1] = <<"#!ipxe">>
           /\ Cardinality({i \in 1..Len(script) : script[i][1] = "chain"}) = 1
           /\ \A op \in ops :
                Cardinality({i \in 1..Len(script) :
                    script[i] = <<"set", <<op, "_url">>,
                                  ExtensionURL(ServerAddr, h.Name,
                                               h.CurrentSessionIDs.ExtensionID,
                                               op)>>}) = 1
           /\ \A l \in sets :
                l[2][2] = "_url" => l[2][1] \in fixed \cup ops
           /\ (\E l \in sets : l[2] = <<"images", "_version">>)
                 <=> h.ImagesVersion # ""


\* The sets of four IDs that stage-1 requests have minted so far.
MintedSets ==
    {[Stage2ID |-> generateSessionID(n), Stage3ID |-> generateSessionID(n + 1),
      ReportID |-> generateSessionID(n + 2),
      ExtensionID |-> generateSessionID(n + 3)] :
        n \in {k \in 1..(nextID - 1) : k % 4 = 1}}

Stage1Saved ==
    /\ response.handler \in {Stage1IPXE, Stage1JSON}
    /\ response.status = 200
    /\ response.wrote

\* C26: the stored session IDs are always the four IDs of one stage-1
\* request, never a mixture; a stage-1 that saves leaves exactly the IDs it
\* hands out in the store, whatever another stage-1 had saved since it
\* loaded the record; and a report or extension request bearing an ID that
\* is not the loaded record's ID of that category is answered 403.
C26_LastWriterWins ==
    /\ \A name \in DOMAIN store :
         store[name].CurrentSessionIDs \in MintedSets \cup {ZeroSessionIDs}
    /\ Stage1Saved =>
         /\ store[response.name].CurrentSessionIDs
               = response.saved.CurrentSessionIDs
         /\ BodyIDs(response.body) = SessionIDSet(response.saved)
         /\ response.saved.CurrentSessionIDs \in MintedSets
    /\ (/\ response.handler \in {"report", "extension"}
        /\ ForExistingHost
        /\ response.sid # OwnID(response.handler,
                                response.loaded.CurrentSessionIDs)) =>
         response.status = 403

\* A stage-1 saves after another stage-1, which had loaded the same record,
\* has saved: the first one's IDs are gone from the store.
C26_Witness ==
    /\ Stage1Saved
    /\ response.loaded.CurrentSessionIDs = ZeroSessionIDs
    /\ response.before[response.name].CurrentSessionIDs \in MintedSets
    /\ SessionIDSet(store[response.name])
          \cap SessionIDSet(response.before[response.name]) = {}


\* The last stage-1 that saved had loaded the record before the one that
\* saved before it did, so that one lost a race to it and no stage-1 has
\* saved since.
LostRace ==
    /\ Len(issued) >= 2
    /\ issued[Len(issued)].loaded # issued[Len(issued) - 1].ids

\* C27 (as stated): the IDs of a stage-1 that lost a race to a concurrent
\* stage-1 still authorize report and extension requests from the host as
\* long as no later stage-1 has overwritten them.
C27_LoserStillAuthorized ==
    (/\ LostRace
     /\ response.handler \in {"report", "extension"}
     /\ ForExistingHost
     /\ response.sourceOK
     /\ response.sid = OwnID(response.handler, issued[Len(issued) - 1].ids)) =>
        response.status # 403

C32_HostNamesFixed ==
    [][/\ DOMAIN store' = DOMAIN store
       /\ (response' # response /\ response'.handler # "") =>
            /\ response'.name \notin DOMAIN store =>
                 (response'.status = 404 /\ ~response'.saveCalled)
            /\ response'.saveCalled =>
                 (/\ response'.saved.Name = response'.loaded.Name
                  /\ response'.saved.Name \in DOMAIN store)]_vars

\* A request for an unknown name was answered 404 after a stage-1 for the
\* known host had saved.
C32_Witness ==
    /\ response.name = NoSuchName
    /\ response.status = 404
    /\ issued # <<>>
    /\ DOMAIN store = {HostName}

\* C37: every record in the store, and every record handed to Save, has
\* LastSuccess <= LastReport.
C37_SuccessNotAfterReport ==
    /\ \A name \in DOMAIN store : store[name].LastSuccess <= store[name].LastReport
    /\ response.saveCalled => response.saved.LastSuccess <= response.saved.LastReport

\* A report that was not a success has been saved after a successful one,
\* at a later time.
C37_Witness ==
    /\ response.handler = "report"
    /\ response.wrote
    /\ response.msg # "success"
    /\ store[HostName].LastSuccess > 0
    /\ store[HostName].LastSuccess < store[HostName].LastReport

----------------------------------------------------------------------------
(* Claims about a host that has booted before, under BootedSpec *)

\* C28 (as stated): once a success report has been saved and answered 204,
\* the stored update_enabled is false, whatever requests follow or were
\* under way.
C28_UpdateStaysCleared ==
    succeeded => \A name \in DOMAIN store : ~store[name].UpdateEnabled

\* C29 (as stated): saving a report leaves the stored session IDs and
\* last_session_creation as they were just before the save.
C29_ReportSaveKeepsIDs ==
    (response.handler = "report" /\ response.wrote) =>
        LET was == response.before[response.name]
            is == store[response.name]
        IN /\ is.CurrentSessionIDs = was.CurrentSessionIDs
           /\ is.LastSessionCreation = was.LastSessionCreation

\* C30 (as stated): once a later stage-1 has been saved, an extension
\* request bearing an ID that an earlier stage-1 issued is answered 403.
\* The extension handler serves a request in one step, so the request
\* arrived after the save.
C30_EarlierIDsRejected ==
    (/\ response.handler = "extension"
     /\ ForExistingHost
     /\ \E i \in 1..(Len(issued) - 1) :
          response.sid \in {issued[i].ids.Stage2ID, issued[i].ids.Stage3ID,
                            issued[i].ids.ReportID, issued[i].ids.ExtensionID}) =>
        response.status = 403

\* C36 (as stated): as long as no later stage-1 has been saved, a report
\* from the host that bears the ReportID of the last stage-1 that saved
\* passes the session check, and is answered 204 when its Save succeeds,
\* whatever reports were made before it.
C36_ReportsAccepted ==
    (/\ response.handler = "report"
     /\ ForExistingHost
     /\ response.sourceOK
     /\ response.sid = issued[Len(issued)].ids.ReportID) =>
        /\ response.status # 403
        /\ response.wrote => response.status = 204

----------------------------------------------------------------------------
(* The boot client's claims, under ClientSpec *)

\* C17 (as stated): whenever the retry loop has ended with the last run
\* having failed, the machine is rebooted.  main tests the runErr declared
\* before the loop, while the loop assigns a runErr of its own.
C17_RebootAfterFailure ==
    (boot.pc = "exit" /\ boot.runErr) => boot.rebooted

\* Command mode: runCommands is somewhere between evaluateVars and its return.
InCommandMode == boot.pc \in {"vars", "files", "env", "commands", "exec"}

\* C18: chain wins over commands.  Command mode is entered only with a
\* document whose v1.chain is empty; the only document whose vars, files,
\* env and commands are evaluated or executed is the last one fetched, and
\* it carries no chain.
C18_ChainWins ==
    /\ InCommandMode => ~boot.V1.chain
    /\ boot.executed \subseteq boot.evaluated
    /\ boot.evaluated # {} =>
         /\ boot.evaluated = {boot.V1.id}
         /\ boot.V1.id = boot.loads
         /\ ~boot.V1.chain

\* A run followed a chain and executed the commands of the last document.
C18_Witness ==
    /\ boot.pc = "report"
    /\ boot.loads >= 2
    /\ boot.executed = {boot.loads}

C20_TempFilesDeleted ==
    ~InCommandMode => boot.tmp = {}

\* runCommands returned an error after one file was downloaded and the
\* download of another failed.
C20_Witness ==
    /\ boot.pc = "report"
    /\ boot.runErr
    /\ boot.named # {}
    /\ boot.created \ boot.named # {}
    /\ boot.tmp = {}

\* C21: outside the command loop, so after every return of runCommands
\* (all commands succeeded, one failed or timed out, dry-run), the
\* environment of the process is what it was before v1.env was applied.
C21_EnvironmentRestored ==
    boot.pc \notin {"off", "exec"} => boot.env = ProcessEnv

\* v1.env was applied (it changed variables and added one), a command
\* failed, and runCommands has returned.
C21_Witness ==
    /\ boot.pc = "report"
    /\ boot.applied
    /\ boot.changed # {}
    /\ <<"EPOXY_NEW", "">> \in boot.added
    /\ boot.errText = "command failed"
    /\ boot.env = ProcessEnv

\* C22: the commands spawned are in document order; every one but the last
\* exited with status zero; once a command has failed or timed out the loop
\* is over and Run has returned an error; nothing is spawned in dry-run.
C22_CommandsInOrder ==
    /\ \A i \in 1..Len(boot.spawned) :
         /\ Commands[boot.spawned[i][1]] = "command"
         /\ i < Len(boot.spawned) =>
              /\ boot.spawned[i][1] < boot.spawned[i + 1][1]
              /\ boot.spawned[i][2] = "ok"
    /\ \A i \in 1..Len(boot.spawned) :
         boot.spawned[i][2] # "ok" => boot.pc # "exec" /\ boot.runErr
    /\ boot.pc = "exec" =>
         \A k \in 1..(boot.next - 1) :
            (Commands[k] = "command" /\ ~boot.dryrun) =>
               \E i \in 1..Len(boot.spawned) : boot.spawned[i] = <<k, "ok">>
    /\ boot.dryrun => boot.spawned = <<>>

\* A first command exited zero, a later one timed out, and commands follow
\* that were not spawned.
C22_Witness ==
    /\ boot.pc = "report"
    /\ Len(boot.spawned) = 2
    /\ boot.spawned[2][2] = "timeout"
    /\ \E k \in (boot.spawned[2][1] + 1)..Len(Commands) : Commands[k] = "command"
    /\ boot.runErr

\* C23: once Run has returned, the message is "success" exactly when Run
\* returned no error and otherwise "error: " followed by the error text;
\* after c.Report the message was posted (or, in dry-run, printed), and
\* what the server was sent is that message.
C23_ReportMessage ==
    /\ boot.pc \in {"report", "check"} =>
         /\ (boot.result = <<"success">>) <=> ~boot.runErr
         /\ boot.runErr => boot.result = <<"error: ", boot.errText>>
    /\ boot.pc = "check" =>
         /\ boot.dryrun => boot.posted = "printed"
         /\ ~boot.dryrun => boot.posted \in {"sent", "failed"}
         /\ boot.posted = "sent" => boot.reported = boot.result

\* The files pass failed on a checksum mismatch after a file had been
\* downloaded; the temporary files are gone and the error was reported.
C23_Witness ==
    /\ boot.pc = "check"
    /\ boot.posted = "sent"
    /\ boot.reported = <<"error: ", "checksum mismatch">>
    /\ boot.named # {}
    /\ boot.tmp = {}

\* C33: a turn of the retry loop is the last one exactly when -no-retry is
\* set, its run succeeded or the deadline has passed, whatever became of the
\* report; once the loop has ended nothing is loaded, spawned or reported.
C33_RetryLoopEnds ==
    [][/\ (boot.pc = "check" /\ boot'.pc # "check") =>
            /\ boot'.pc \in {"after", "sleep"}
            /\ boot'.pc = "after" <=>
                 (boot.noRetry \/ ~boot.runErr \/ boot'.now > Timeout)
       /\ boot.pc \in {"after", "exit"} =>
            /\ boot'.pc = "exit"
            /\ boot'.loads = boot.loads
            /\ boot'.spawned = boot.spawned
            /\ boot'.posted = boot.posted
            /\ boot'.reported = boot.reported]_vars

\* A retry that succeeded before the deadline ended the loop although its
\* report could not be delivered.
C33_Witness ==
    /\ boot.pc = "exit"
    /\ ~boot.noRetry
    /\ ~boot.runErr
    /\ boot.posted = "failed"
    /\ boot.now \in 1..Timeout

\* C38 (as stated): a document without a "v1" member, loaded from the
\* action URL or from a chain URL, never makes the client panic.
C38_NoV1NoCrash == boot.pc # "panic"

\* C34: the passes run in the order vars, files, env, commands and none
\* runs after one that failed; the environment is changed and a command is
\* spawned only after all four succeeded; an evaluated variable holds
\* nothing read from a variable or a file, an evaluated file url holds the
\* evaluated variable but no file's local name, and the evaluated
\* environment and commands hold the variable and the file's local name.
C34_PassOrder ==
    /\ Len(boot.passes) <= 4
    /\ \A i \in DOMAIN boot.passes :
         /\ boot.passes[i][1] = <<"vars", "files", "env", "commands">>[i]
         /\ i < Len(boot.passes) => boot.passes[i][2]
    /\ (boot.applied \/ boot.spawned # <<>> \/ boot.env # ProcessEnv) =>
         /\ Len(boot.passes) = 4
         /\ boot.passes[4][2]
    /\ \A kv \in boot.vars : \A seg \in Range(kv[2]) :
         /\ seg[1] \notin {"tmpfile", "kargs"}
         /\ kv[1] = "probe" => seg = NoValue
    /\ \A f \in boot.files : f[2] = "url" =>
         /\ \A seg \in Range(f[3]) : seg[1] \notin {"tmpfile", "kargs", "vars"}
         /\ Lit("hello, ") \in Range(f[3])
    /\ \A kv \in boot.envv :
         /\ kv[1] = "PATH" => Lit("hello, ") \in Range(kv[2])
         /\ kv[1] = "EPOXY_NEW" => TempName(AllFileNames[1]) \in Range(kv[2])
    /\ boot.argv # <<>> =>
         /\ boot.argv[1][3] = <<TempName(AllFileNames[1])>>
         /\ Lit("hello, ") \in Range(boot.argv[3][2])

\* All four passes succeeded, the environment of the document is in place
\* and a command has been spawned.
C34_Witness ==
    /\ boot.pc = "exec"
    /\ boot.spawned # <<>>
    /\ boot.env # ProcessEnv
    /\ boot.passes = <<<<"vars", TRUE>>, <<"files", TRUE>>, <<"env", TRUE>>,
                       <<"commands", TRUE>>>>

\* C39 (as stated): text that the evaluation of a string command took from
\* a karg reaches the command as it is: the karg "motd" holds the text of a
\* template action, and the last argument of the first command, a string
\* that ends with that karg, is that text.
C39_EvaluatedOnce ==
    (boot.pc = "exec" /\ HasKarg(boot.Kargs, "motd")) =>
        boot.argv[1][Len(boot.argv[1])] = Segments(KargValue(boot.Kargs, "motd"))

----------------------------------------------------------------------------
(* ParseCmdline's claim, under ParseSpec *)

\* strings.Fields: the maximal pieces without white space.
RECURSIVE Fields(_)
Fields(str) ==
    LET white == {" ", "\t", "\n"}
        trimmed == Trim(str, white)
        at == {i \in 1..Len(trimmed) : trimmed[i] \in white}
    IN IF trimmed = <<>> THEN <<>>
       ELSE IF at = {} THEN <<trimmed>>
       ELSE LET i == CHOOSE k \in at : \A j \in at : k <= j
            IN <<SubSeq(trimmed, 1, i - 1)>>
                  \o Fields(SubSeq(trimmed, i + 1, Len(trimmed)))

\* C24 (as stated): the kargs after ParseCmdline hold one entry for each
\* token that white space of any kind separates (key before the first "=",
\* value after it, empty without "="), and nothing else.
C24_OneEntryPerToken ==
    boot.pc = "parsed" =>
        boot.Kargs = ParseParams(Fields(boot.cmdline), Len(Fields(boot.cmdline)))

----------------------------------------------------------------------------
(* The source-IP rule's claim, under SourceSpec *)

\* C35: with AllowForwardedRequests off the request is from the host
\* exactly when the IP of RemoteAddr is the host's IPv4 address, whatever
\* the X-Forwarded-For header holds; with it on, exactly when the header
\* has one or two elements and the first is the host's IPv4 address.
C35_SourceRule ==
    response.handler = "requestIsFromHost" =>
        LET header == response.req.XForwardedFor
            ipv4 == response.loaded.IPv4Addr
        IN  response.sourceOK <=>
                IF allowForwarded
                THEN header # <<>> /\ Len(header) <= 2 /\ header[1] = ipv4
                ELSE response.req.RemoteAddr[1] = ipv4

\* A header of three elements whose first is the host's address was
\* rejected in trusted-proxy mode.
C35_Witness ==
    /\ response.handler = "requestIsFromHost"
    /\ allowForwarded
    /\ Len(response.req.XForwardedFor) = 3
    /\ response.req.XForwardedFor[1] = response.loaded.IPv4Addr
    /\ ~response.sourceOK

====
